---- MODULE Spec2Model ----
(***************************************************************************)
(* klogger: a character device backed by a ring of fixed-size message     *)
(* slots (src/klogger.c).  The model follows dev_open, dev_release,       *)
(* dev_read and dev_write statement by statement; every caller is a       *)
(* process that owns one open file (its own file position).  The ring is  *)
(* scaled down: MSG_LEN and LOG_BUF_LEN are small, MAX_ENTRIES stays a    *)
(* power of two as the index masks of the code require.                   *)
(***************************************************************************)
EXTENDS Integers, Sequences, FiniteSets, TLC

\* ------------------------------------------------------------ configuration

\* #define MSG_LEN: bytes of one slot (content plus the NUL terminator).
MSG_LEN == 3
\* #define LOG_BUF_LEN: bytes of the whole ring.
LOG_BUF_LEN == 6
\* #define MAX_ENTRIES (LOG_BUF_LEN / MSG_LEN)
MAX_ENTRIES == LOG_BUF_LEN \div MSG_LEN

\* errno values returned negated by the handlers.
EINVAL == 22
EFAULT == 14
ENOMEM == 12
EMFILE == 24

\* INT_MAX, scaled: the largest value of the int inside an atomic_t.
INT_MAX == 2

\* Bounds of the exploration.
MaxWrites == 3
MaxCount == 4
MaxLeak == 1

\* The callers.
Procs == {1, 2}
\* Text bytes a caller writes; 0 is the NUL byte.
Bytes == {1, 2}
\* The messages callers write: lengths 0 .. MSG_LEN + 1.
Msgs == {<<>>, <<2, 1>>, <<1, 2, 2>>, <<2, 1, 1, 2>>}
\* Values an uninitialized size_t local may hold.
Garbage == {0, LOG_BUF_LEN}

\* ------------------------------------------------------------------ helpers

Min(a, b) == IF a <= b THEN a ELSE b

RECURSIVE BitAnd(_, _)
BitAnd(a, b) ==
  IF a = 0 \/ b = 0 THEN 0
  ELSE (a % 2) * (b % 2) + 2 * BitAnd(a \div 2, b \div 2)

\* (i + 1) & (MAX_ENTRIES - 1)
NextIdx(i) == BitAnd(i + 1, MAX_ENTRIES - 1)

\* strnlen(buf + base, maxlen)
RECURSIVE StrNLen(_, _, _)
StrNLen(buf, base, maxlen) ==
  IF maxlen = 0 \/ buf[base] = 0 THEN 0
  ELSE 1 + StrNLen(buf, base + 1, maxlen - 1)

\* The n bytes of buf from offset base, as a sequence.
Bytes_at(buf, base, n) == [i \in 1..n |-> buf[base + i - 1]]

\* copy_from_user(buf + base, src + off, n) of which k bytes arrive; the
\* kernel zero-fills the n - k bytes of the destination it could not copy.
CopyFromUser(buf, base, src, off, n, k) ==
  [i \in DOMAIN buf |->
     IF i >= base /\ i < base + k THEN src[off + (i - base) + 1]
     ELSE IF i >= base + k /\ i < base + n THEN 0
     ELSE buf[i]]

\* A truncation that keeps the head of an oversized message.
UsrIdxKeepHead(count) == 0

\* dev_write: the truncation of an oversized message to its tail.
UsrIdx(count) == IF count >= MSG_LEN THEN count - (MSG_LEN - 1) ELSE 0
BytesToCopy(count) == IF count >= MSG_LEN THEN MSG_LEN - 1 ELSE count

\* A write that never evicts.
EvictTailNever(e, h, t) == t

\* dev_write: the tail after the eviction test.
EvictTail(e, h, t) == IF e = MAX_ENTRIES /\ h = t THEN NextIdx(t) ELSE t

\* An entry count that does not saturate.
BumpEntriesUnsaturated(e) == e + 1

\* dev_write: the saturating entry count.
BumpEntries(e) == IF e < MAX_ENTRIES THEN e + 1 ELSE e

\* dev_write: the early return on the file position.
WritePosClosed(pos) == pos >= MSG_LEN

\* A write that advances the file position by the bytes it accepted.
WritePosAdvances(pos, count) == pos + count

\* dev_write: the file position after a stored write; the handler returns
\* count and never assigns *file_pos.
WritePosAfter(pos, count) == pos

\* ---------------------------------------------------------------- the state

VARIABLES
  log_buffer,   \* klog.log_buffer: [0 .. LOG_BUF_LEN-1 -> byte]
  head,         \* klog.head
  tail,         \* klog.tail
  prev_head,    \* klog.prev_head
  entries,      \* klog.entries
  rwlock,       \* klog.rwlock: [readers |-> Nat, writer |-> BOOLEAN]
  open_count,   \* klog.open_count
  kleak,        \* temporary buffers lost without kfree (saturates at MaxLeak)
  pc,           \* where each caller is
  file_pos,     \* *file_pos of each caller's open file
  call,         \* the call in progress: its arguments
  loc,          \* the call in progress: its locals
  ret,          \* the value the call returns
  out,          \* the bytes a read delivered to the caller
  obs,          \* history of the call in progress
  sess,         \* history of each open file's reads
  log,          \* history: the messages stored, as stored, in order
  acq,          \* history: the messages of the writers, in write_lock order
  faulted       \* history: some copy_from_user failed

ring == <<log_buffer, head, tail, prev_head, entries>>
frame == <<call, loc, ret, out, obs>>
hist == <<log, acq, faulted>>
vars == <<log_buffer, head, tail, prev_head, entries, rwlock, open_count,
          kleak, pc, file_pos, call, loc, ret, out, obs, sess, log, acq, faulted>>

NoCall == [op |-> "none", count |-> 0, ubuf |-> TRUE, msg |-> <<>>]
NoLoc == [current_pos |-> 0, bytes_read |-> 0, bytes_to_copy |-> 0,
          entries_read |-> 0, buffer |-> <<>>, size |-> 0, held |-> FALSE]
\* pos0: the file position at entry; acq0: the writes that had the lock at
\* entry; built, snap: the scan ran, on a ring whose snapshot was snap; seen:
\* the snapshots of the ring states that existed during the call.
NoObs == [pos0 |-> 0, acq0 |-> 0, built |-> FALSE, snap |-> <<>>, seen |-> {}]
\* count: the max_len of every read so far on this file, all of them valid
\* and successful and none followed by a change of the ring (0: no read yet);
\* quiet: FALSE once that stopped being so.  polls: the reads of this file
\* that returned data; still: no write has changed the ring since the first
\* read of this file began.
NoSess == [count |-> 0, quiet |-> TRUE, polls |-> 0, still |-> TRUE]
Broken == [count |-> 0, quiet |-> FALSE, polls |-> 0, still |-> TRUE]
\* The run of reads of one fixed max_len is over.
Unquiet(s) == [s EXCEPT !.count = 0, !.quiet = FALSE]

\* klogger_init, and no file open yet.
Init ==
  /\ log_buffer = [i \in 0..(LOG_BUF_LEN - 1) |-> 0]
  /\ head = 0
  /\ tail = 0
  /\ prev_head = 0
  /\ entries = 0
  /\ rwlock = [readers |-> 0, writer |-> FALSE]
  /\ open_count = 0
  /\ kleak = 0
  /\ pc = [p \in Procs |-> "idle"]
  /\ file_pos = [p \in Procs |-> 0]
  /\ call = [p \in Procs |-> NoCall]
  /\ loc = [p \in Procs |-> NoLoc]
  /\ ret = [p \in Procs |-> 0]
  /\ out = [p \in Procs |-> <<>>]
  /\ obs = [p \in Procs |-> NoObs]
  /\ sess = [p \in Procs |-> NoSess]
  /\ log = <<>>
  /\ acq = <<>>
  /\ faulted = FALSE

\* ------------------------------------------------- the retained entries

\* The content of slot i: its bytes up to the terminator.
SlotContent(buf, i) == Bytes_at(buf, i * MSG_LEN, StrNLen(buf, i * MSG_LEN, MSG_LEN))

\* Slots from t forward through ph inclusive.
RECURSIVE Walk(_, _)
Walk(t, ph) == IF t = ph THEN <<t>> ELSE <<t>> \o Walk(NextIdx(t), ph)

\* The slots holding retained entries, oldest first.
Retained(e, t, ph) == IF e = 0 THEN <<>> ELSE Walk(t, ph)

RECURSIVE Concat(_, _)
Concat(buf, slots) ==
  IF slots = <<>> THEN <<>>
  ELSE SlotContent(buf, Head(slots)) \o Concat(buf, Tail(slots))

\* The logical snapshot of a ring state.
Snapshot(buf, e, t, ph) == Concat(buf, Retained(e, t, ph))
SnapshotNow == Snapshot(log_buffer, entries, tail, prev_head)

\* ------------------------------------------------------------- dev_write

Reading(p) == pc[p] \in {"r_lock", "r_scan", "r_copy"}

\* Writes that will take or have taken the lock.
WritesBegun == Len(acq) + Cardinality({q \in Procs : pc[q] = "w_lock"})

\* dev_write up to write_lock: truncation and the file position test.
dev_write_entry(p, m) ==
  /\ pc[p] = "idle"
  /\ IF WritePosClosed(file_pos[p]) THEN TRUE ELSE WritesBegun < MaxWrites
  /\ call' = [call EXCEPT ![p] = [op |-> "write", count |-> Len(m),
                                   ubuf |-> TRUE, msg |-> m]]
  /\ obs' = [obs EXCEPT ![p] = [NoObs EXCEPT !.pos0 = file_pos[p],
                                             !.acq0 = Len(acq)]]
  /\ IF WritePosClosed(file_pos[p])
       THEN /\ pc' = [pc EXCEPT ![p] = "ret"]
            /\ ret' = [ret EXCEPT ![p] = 0]
       ELSE /\ pc' = [pc EXCEPT ![p] = "w_lock"]
            /\ ret' = ret
  /\ UNCHANGED <<ring, rwlock, open_count, kleak, file_pos, loc, out, sess, hist>>

\* A write lock that does not wait for another writer.
WriteLockIgnoresWriter(l) == l.readers = 0

\* The guard of write_lock.
WriteLockFree(l) == l.readers = 0 /\ ~l.writer

\* write_lock(&klog.rwlock)
write_lock(p) ==
  /\ pc[p] = "w_lock"
  /\ WriteLockFree(rwlock)
  /\ rwlock' = [rwlock EXCEPT !.writer = TRUE]
  /\ pc' = [pc EXCEPT ![p] = "w_crit"]
  /\ acq' = Append(acq, SubSeq(call[p].msg, UsrIdx(call[p].count) + 1, call[p].count))
  /\ UNCHANGED <<ring, open_count, kleak, file_pos, frame, sess, log, faulted>>

\* Every reader in a call sees the ring state a write leaves.
Observe(o, snap) ==
  [q \in Procs |-> IF Reading(q) THEN [o[q] EXCEPT !.seen = @ \cup {snap}] ELSE o[q]]

\* A change of the ring ends the run of reads of every file that had begun one.
Disturb(ss) ==
  [q \in Procs |-> IF ss[q].count = 0 /\ ss[q].quiet
                     THEN ss[q]
                     ELSE [Unquiet(ss[q]) EXCEPT !.still = FALSE]]

\* The critical section when copy_from_user succeeds.
dev_write_store(p) ==
  /\ pc[p] = "w_crit"
  /\ LET n == BytesToCopy(call[p].count)
         base == head * MSG_LEN
         copied == CopyFromUser(log_buffer, base, call[p].msg,
                                UsrIdx(call[p].count), n, n)
     IN /\ tail' = EvictTail(entries, head, tail)
        /\ log_buffer' = [copied EXCEPT ![base + n] = 0]
        /\ entries' = BumpEntries(entries)
        /\ prev_head' = head
        /\ head' = NextIdx(head)
        /\ log' = Append(log, Bytes_at(copied, base, n))
  /\ ret' = [ret EXCEPT ![p] = call[p].count]
  /\ pc' = [pc EXCEPT ![p] = "w_unlock"]
  /\ obs' = Observe(obs, Snapshot(log_buffer', entries', tail', prev_head'))
  /\ sess' = Disturb(sess)
  /\ file_pos' = [file_pos EXCEPT ![p] = WritePosAfter(@, call[p].count)]
  /\ UNCHANGED <<rwlock, open_count, kleak, call, loc, out, acq, faulted>>

\* The critical section when copy_from_user faults after k bytes.
dev_write_fault(p, k) ==
  /\ pc[p] = "w_crit"
  /\ LET n == BytesToCopy(call[p].count)
     IN /\ k < n
        /\ tail' = EvictTail(entries, head, tail)
        /\ log_buffer' = CopyFromUser(log_buffer, head * MSG_LEN, call[p].msg,
                                      UsrIdx(call[p].count), n, k)
  /\ ret' = [ret EXCEPT ![p] = -EFAULT]
  /\ pc' = [pc EXCEPT ![p] = "w_unlock"]
  /\ faulted' = TRUE
  /\ obs' = Observe(obs, Snapshot(log_buffer', entries, tail', prev_head))
  /\ sess' = Disturb(sess)
  /\ UNCHANGED <<head, prev_head, entries, rwlock, open_count, kleak, file_pos,
                 call, loc, out, log, acq>>

\* An error return that keeps the lock.
WriteUnlockedOnSuccess(l, r) == IF r < 0 THEN l ELSE [l EXCEPT !.writer = FALSE]

\* The lock after dev_write leaves with result r: write_unlock is called on
\* the fault return (line 231) as on the normal one (line 244).
WriteUnlocked(l, r) == [l EXCEPT !.writer = FALSE]

\* write_unlock(&klog.rwlock) and the return.
write_unlock(p) ==
  /\ pc[p] = "w_unlock"
  /\ rwlock' = WriteUnlocked(rwlock, ret[p])
  /\ pc' = [pc EXCEPT ![p] = "ret"]
  /\ UNCHANGED <<ring, open_count, kleak, file_pos, frame, sess, hist>>

\* -------------------------------------------------------------- dev_read

\* A scan that copies every message whole.
ClipNever(bytes_read, len, count) == len

\* dev_read: "don't copy more than the user requested".
ClipToCount(bytes_read, len, count) ==
  IF bytes_read + len > count THEN count - bytes_read ELSE len

\* dev_read: the while loop, from the locals l, for a request of count bytes.
RECURSIVE ScanLoop(_, _, _, _, _)
ScanLoop(l, count, buf, e, ph) ==
  IF l.bytes_read < count /\ l.entries_read < e
    THEN LET len == StrNLen(buf, l.current_pos * MSG_LEN, MSG_LEN)
             n == ClipToCount(l.bytes_read, len, count)
             l1 == [l EXCEPT !.bytes_to_copy = n,
                             !.buffer = @ \o Bytes_at(buf, l.current_pos * MSG_LEN, n),
                             !.bytes_read = @ + n,
                             !.entries_read = @ + 1]
         IN IF l.current_pos = ph
              THEN l1
              ELSE ScanLoop([l1 EXCEPT !.current_pos = NextIdx(@)], count, buf, e, ph)
    ELSE l

\* An end-of-stream test that lets a cursor equal to the length through.
ReadEofStrict(pos, bytes_to_copy) == pos > bytes_to_copy

\* dev_read: the end-of-stream test after the scan.
ReadEof(pos, bytes_to_copy) == pos >= bytes_to_copy

\* dev_read up to read_lock: the tail is read before the lock is taken.
dev_read_entry(p, count, ubuf, alloc) ==
  /\ pc[p] = "idle"
  /\ call' = [call EXCEPT ![p] = [op |-> "read", count |-> count,
                                   ubuf |-> ubuf, msg |-> <<>>]]
  /\ obs' = [obs EXCEPT ![p] = [NoObs EXCEPT !.pos0 = file_pos[p],
                                             !.seen = {SnapshotNow}]]
  /\ sess' = [sess EXCEPT ![p] =
        IF ~@.quiet \/ ~ubuf \/ count = 0 \/ ~alloc THEN Unquiet(@)
        ELSE IF @.count = 0 THEN [@ EXCEPT !.count = count]
        ELSE IF @.count = count THEN @ ELSE Unquiet(@)]
  /\ IF ~ubuf \/ count = 0
       THEN /\ ret' = [ret EXCEPT ![p] = -EINVAL]
            /\ pc' = [pc EXCEPT ![p] = "ret"]
            /\ loc' = [loc EXCEPT ![p].current_pos = tail]
       ELSE IF file_pos[p] >= LOG_BUF_LEN
         THEN /\ ret' = [ret EXCEPT ![p] = 0]
              /\ pc' = [pc EXCEPT ![p] = "ret"]
              /\ loc' = [loc EXCEPT ![p].current_pos = tail]
         ELSE IF ~alloc
           THEN /\ ret' = [ret EXCEPT ![p] = -ENOMEM]
                /\ pc' = [pc EXCEPT ![p] = "ret"]
                /\ loc' = [loc EXCEPT ![p].current_pos = tail]
           ELSE /\ ret' = ret
                /\ pc' = [pc EXCEPT ![p] = "r_lock"]
                /\ loc' = [loc EXCEPT ![p].current_pos = tail,
                                      ![p].size = Min(count, LOG_BUF_LEN),
                                      ![p].held = TRUE]
  /\ UNCHANGED <<ring, rwlock, open_count, kleak, file_pos, out, hist>>

\* A read lock that a writer inside does not hold back.
ReadLockIgnoresWriter(l) == TRUE

\* The guard of read_lock.
ReadLockFree(l) == ~l.writer

\* read_lock(&klog.rwlock)
read_lock(p) ==
  /\ pc[p] = "r_lock"
  /\ ReadLockFree(rwlock)
  /\ rwlock' = [rwlock EXCEPT !.readers = @ + 1]
  /\ pc' = [pc EXCEPT ![p] = "r_scan"]
  /\ UNCHANGED <<ring, open_count, kleak, file_pos, frame, sess, hist>>

\* The scan under the lock, then read_unlock; g is what the uninitialized
\* bytes_to_copy holds when the loop body never runs.
dev_read_scan(p, g) ==
  /\ pc[p] = "r_scan"
  /\ loc' = [loc EXCEPT ![p] = ScanLoop([loc[p] EXCEPT !.bytes_to_copy = g],
                                        call[p].count, log_buffer, entries, prev_head)]
  /\ obs' = [obs EXCEPT ![p].snap = SnapshotNow, ![p].built = TRUE]
  /\ rwlock' = [rwlock EXCEPT !.readers = @ - 1]
  /\ pc' = [pc EXCEPT ![p] = "r_copy"]
  /\ UNCHANGED <<ring, open_count, kleak, file_pos, call, ret, out, sess, hist>>

\* Lines 183-192: the cursor after the copy out; a failed copy returns
\* before the cursor is advanced.
FilePosMovesOnFault(pos, copied, bytes_read) == pos + bytes_read

FilePosAfter(pos, copied, bytes_read) ==
  IF copied THEN pos + bytes_read ELSE pos

\* After the lock: end-of-stream test, copy_to_user, kfree, file position.
dev_read_copy(p, ok) ==
  /\ pc[p] = "r_copy"
  /\ ok \/ loc[p].bytes_read > 0
  /\ pc' = [pc EXCEPT ![p] = "ret"]
  /\ sess' = [sess EXCEPT ![p] =
        IF ~ok THEN Unquiet(@)
        ELSE IF ~ReadEof(file_pos[p], loc[p].bytes_to_copy) /\ loc[p].bytes_read > 0
          THEN [@ EXCEPT !.polls = @ + 1]
          ELSE @]
  /\ IF ReadEof(file_pos[p], loc[p].bytes_to_copy)
       THEN /\ ok
            /\ ret' = [ret EXCEPT ![p] = 0]
            /\ kleak' = Min(kleak + 1, MaxLeak)
            /\ UNCHANGED <<file_pos, out, loc>>
       ELSE IF ~ok
         THEN /\ ret' = [ret EXCEPT ![p] = -EFAULT]
              /\ loc' = [loc EXCEPT ![p].held = FALSE]
              /\ file_pos' = [file_pos EXCEPT
                    ![p] = FilePosAfter(@, FALSE, loc[p].bytes_read)]
              /\ UNCHANGED <<out, kleak>>
         ELSE /\ out' = [out EXCEPT ![p] = loc[p].buffer]
              /\ loc' = [loc EXCEPT ![p].held = FALSE]
              /\ file_pos' = [file_pos EXCEPT
                    ![p] = FilePosAfter(@, TRUE, loc[p].bytes_read)]
              /\ ret' = [ret EXCEPT ![p] = loc[p].bytes_read]
              /\ UNCHANGED kleak
  /\ UNCHANGED <<ring, rwlock, open_count, call, obs, hist>>

\* ------------------------------------------------------- open and release

\* An int after an increment or a decrement: two's complement wrap-around.
WrapInt(x) ==
  IF x > INT_MAX THEN x - 2 * (INT_MAX + 1)
  ELSE IF x < -INT_MAX - 1 THEN x + 2 * (INT_MAX + 1)
  ELSE x

\* dev_open up to its test: atomic_read(&klog.open_count) == INT_MAX.
dev_open_check(p) ==
  /\ pc[p] = "idle"
  /\ call' = [call EXCEPT ![p] = [NoCall EXCEPT !.op = "open"]]
  /\ IF open_count = INT_MAX
       THEN /\ pc' = [pc EXCEPT ![p] = "ret"]
            /\ ret' = [ret EXCEPT ![p] = -EMFILE]
       ELSE /\ pc' = [pc EXCEPT ![p] = "o_inc"]
            /\ ret' = ret
  /\ UNCHANGED <<ring, rwlock, open_count, kleak, file_pos, loc, out, obs, sess, hist>>

\* atomic_inc(&klog.open_count); return 0
dev_open_inc(p) ==
  /\ pc[p] = "o_inc"
  /\ open_count' = WrapInt(open_count + 1)
  /\ pc' = [pc EXCEPT ![p] = "ret"]
  /\ ret' = [ret EXCEPT ![p] = 0]
  /\ UNCHANGED <<ring, rwlock, kleak, file_pos, call, loc, out, obs, sess, hist>>

\* dev_release up to its test: atomic_read(&klog.open_count) <= 0.
dev_release_check(p) ==
  /\ pc[p] = "idle"
  /\ call' = [call EXCEPT ![p] = [NoCall EXCEPT !.op = "close"]]
  /\ IF open_count <= 0
       THEN /\ pc' = [pc EXCEPT ![p] = "ret"]
            /\ ret' = [ret EXCEPT ![p] = -EINVAL]
       ELSE /\ pc' = [pc EXCEPT ![p] = "c_dec"]
            /\ ret' = ret
  /\ UNCHANGED <<ring, rwlock, open_count, kleak, file_pos, loc, out, obs, sess, hist>>

\* atomic_dec(&klog.open_count); return 0
dev_release_dec(p) ==
  /\ pc[p] = "c_dec"
  /\ open_count' = WrapInt(open_count - 1)
  /\ pc' = [pc EXCEPT ![p] = "ret"]
  /\ ret' = [ret EXCEPT ![p] = 0]
  /\ UNCHANGED <<ring, rwlock, kleak, file_pos, call, loc, out, obs, sess, hist>>

\* ------------------------------------------------------------------ return

\* The caller takes the result; its next call starts from a clean frame.
Return(p) ==
  /\ pc[p] = "ret"
  /\ pc' = [pc EXCEPT ![p] = "idle"]
  /\ call' = [call EXCEPT ![p] = NoCall]
  /\ loc' = [loc EXCEPT ![p] = NoLoc]
  /\ ret' = [ret EXCEPT ![p] = 0]
  /\ out' = [out EXCEPT ![p] = <<>>]
  /\ obs' = [obs EXCEPT ![p] = NoObs]
  /\ UNCHANGED <<ring, rwlock, open_count, kleak, file_pos, sess, hist>>

\* One step of a dev_write call by p.
WriteStep(p) ==
  \/ \E m \in Msgs : dev_write_entry(p, m)
  \/ write_lock(p)
  \/ dev_write_store(p)
  \/ \E k \in 0..(MSG_LEN - 2) : dev_write_fault(p, k)
  \/ write_unlock(p)

\* One step of a dev_read call by p.
ReadStep(p) ==
  \/ \E count \in 0..MaxCount, ubuf \in BOOLEAN, alloc \in BOOLEAN :
       dev_read_entry(p, count, ubuf, alloc)
  \/ read_lock(p)
  \/ \E g \in Garbage : dev_read_scan(p, g)
  \/ \E ok \in BOOLEAN : dev_read_copy(p, ok)

\* One caller reading and writing through one open file.
Next == \E p \in {1} : WriteStep(p) \/ ReadStep(p) \/ Return(p)
Spec == Init /\ [][Next]_vars

\* Two callers writing concurrently.
NextWW == \E p \in Procs : WriteStep(p) \/ Return(p)
SpecWW == Init /\ [][NextWW]_vars

\* A writer and a concurrent reader.
NextRW ==
  \/ \E p \in {1} : WriteStep(p) \/ Return(p)
  \/ \E p \in {2} : ReadStep(p) \/ Return(p)
SpecRW == Init /\ [][NextRW]_vars

\* A caller's read steps when every call is valid and nothing fails: a user
\* buffer is given, max_len >= 1, the allocation and the copy out succeed.
PollStep(p) ==
  \/ \E count \in 1..MaxCount : dev_read_entry(p, count, TRUE, TRUE)
  \/ read_lock(p)
  \/ \E g \in Garbage : dev_read_scan(p, g)
  \/ dev_read_copy(p, TRUE)

\* One caller writing and polling with reads that do not fail.
NextPoll == \E p \in {1} : WriteStep(p) \/ PollStep(p) \/ Return(p)
SpecPoll == Init /\ [][NextPoll]_vars

\* A caller's write steps when every copy from the caller succeeds.
StoreStep(p) ==
  \/ \E m \in Msgs : dev_write_entry(p, m)
  \/ write_lock(p)
  \/ dev_write_store(p)
  \/ write_unlock(p)

\* One caller whose writes all store, reading with any arguments and outcome.
NextRetry == \E p \in {1} : StoreStep(p) \/ ReadStep(p) \/ Return(p)
SpecRetry == Init /\ [][NextRetry]_vars

\* A caller's write steps with a message that fills a slot, stored or faulted.
SlotWriteStep(p) ==
  \/ \E m \in {m \in Msgs : Len(m) = MSG_LEN - 1} : dev_write_entry(p, m)
  \/ write_lock(p)
  \/ dev_write_store(p)
  \/ \E k \in 0..(MSG_LEN - 2) : dev_write_fault(p, k)
  \/ write_unlock(p)

\* A caller's read steps with room for the whole ring: the destination null
\* or valid, the copy out failing or succeeding.
WholeReadStep(p) ==
  \/ \E ubuf \in BOOLEAN : dev_read_entry(p, MaxCount, ubuf, TRUE)
  \/ read_lock(p)
  \/ \E g \in Garbage : dev_read_scan(p, g)
  \/ \E ok \in BOOLEAN : dev_read_copy(p, ok)

\* A caller's steps of either call, for the interleavings of the lock.
LockStep(p) == SlotWriteStep(p) \/ WholeReadStep(p)

\* Two callers, each reading or writing, in every interleaving.
NextLock == \E p \in Procs : LockStep(p) \/ Return(p)
SpecLock == Init /\ [][NextLock]_vars

\* One step of a dev_open or a dev_release call by p.
OpenStep(p) == dev_open_check(p) \/ dev_open_inc(p)
CloseStep(p) == dev_release_check(p) \/ dev_release_dec(p)

\* Two callers opening and closing, and storing messages, in every
\* interleaving; a close needs no earlier open.
NextOpen ==
  \E p \in Procs : OpenStep(p) \/ CloseStep(p) \/ StoreStep(p) \/ Return(p)
SpecOpen == Init /\ [][NextOpen]_vars

\* A writer and a reader, each also opening and closing.
NextFrame ==
  \/ \E p \in {1} : SlotWriteStep(p) \/ OpenStep(p) \/ CloseStep(p) \/ Return(p)
  \/ \E p \in {2} : WholeReadStep(p) \/ OpenStep(p) \/ CloseStep(p) \/ Return(p)
SpecFrame == Init /\ [][NextFrame]_vars

\* A caller's read steps with max_len of one byte, of one slot, and above
\* the size of the whole ring.
SizeReadStep(p) ==
  \/ \E count \in {1, MSG_LEN, LOG_BUF_LEN + 1} : dev_read_entry(p, count, TRUE, TRUE)
  \/ read_lock(p)
  \/ \E g \in Garbage : dev_read_scan(p, g)
  \/ \E ok \in BOOLEAN : dev_read_copy(p, ok)

\* One caller writing, and reading with small and oversized max_len.
NextSize == \E p \in {1} : WriteStep(p) \/ SizeReadStep(p) \/ Return(p)
SpecSize == Init /\ [][NextSize]_vars

\* ------------------------------------------------------------ the claims

\* The last n elements of s.
LastN(s, n) == SubSeq(s, Len(s) - n + 1, Len(s))

\* The contents of the retained entries, oldest first.
RetainedContents ==
  LET r == Retained(entries, tail, prev_head)
  IN [i \in 1..Len(r) |-> SlotContent(log_buffer, r[i])]

\* What dev_write is to keep of message m: m whole when it fits a slot, else
\* its last MSG_LEN - 1 bytes.
Kept(m) == IF Len(m) >= MSG_LEN THEN SubSeq(m, Len(m) - MSG_LEN + 2, Len(m)) ELSE m

\* C1: after k writes that stored their message, none having faulted, the
\* ring retains min(k, MAX_ENTRIES) entries, never more than MAX_ENTRIES, and
\* the slots from tail through prev_head hold the last min(k, MAX_ENTRIES)
\* stored messages in the order of the writes.
C1_CapacityBound ==
  ~faulted =>
    /\ entries = Min(Len(log), MAX_ENTRIES)
    /\ entries <= MAX_ENTRIES
    /\ RetainedContents = LastN(log, Min(Len(log), MAX_ENTRIES))

\* C1's case: more writes than slots, so the oldest message was evicted.
C1_Witness == ~faulted /\ Len(log) > MAX_ENTRIES /\ log[1] # log[Len(log)]

\* Every caller is outside dev_write.
NoWriteInProgress == \A p \in Procs : pc[p] \in {"idle", "ret"}

\* C4: when at most MAX_ENTRIES writers have written to the empty ring and
\* all have returned, none having faulted, the ring holds one entry per
\* writer, each slot holds the whole stored message of one writer, and the
\* entries are in the order in which the writers took the write lock.
C4_ConcurrentWriteIntegrity ==
  (~faulted /\ NoWriteInProgress /\ Len(acq) <= MAX_ENTRIES) =>
    /\ entries = Len(acq)
    /\ tail = 0
    /\ Len(acq) > 0 => prev_head = Len(acq) - 1
    /\ RetainedContents = acq

\* C4's case: two writers with different messages were both inside dev_write
\* before either had the lock, and both have returned.
C4_Witness ==
  /\ ~faulted
  /\ \A p \in Procs : /\ pc[p] = "ret"
                      /\ call[p].op = "write"
                      /\ ret[p] = call[p].count
                      /\ obs[p].acq0 = 0
  /\ Len(acq) = 2
  /\ acq[1] # acq[2]

\* C5: a write whose copy_from_user fails leaves head, tail, prev_head,
\* entries and the content of every retained entry as they were.
C5_FailedWriteLeavesRing ==
  [][\A p \in Procs :
       (pc[p] = "w_crit" /\ pc'[p] = "w_unlock" /\ ret'[p] = -EFAULT) =>
         /\ head' = head
         /\ tail' = tail
         /\ prev_head' = prev_head
         /\ entries' = entries
         /\ RetainedContents' = RetainedContents]_vars

\* C9: a write that stored its message of length L has put into its slot the
\* last MSG_LEN - 1 bytes of the message when L >= MSG_LEN, the whole message
\* otherwise, followed by the terminator, and returns L.
C9_Truncation ==
  \A p \in Procs :
    (pc[p] = "w_unlock" /\ ret[p] >= 0) =>
      LET m == call[p].msg
          base == prev_head * MSG_LEN
      IN /\ Bytes_at(log_buffer, base, Len(Kept(m))) = Kept(m)
         /\ log_buffer[base + Len(Kept(m))] = 0
         /\ ret[p] = Len(m)

\* C9's case: a message of exactly MSG_LEN bytes was stored.
C9_Witness ==
  \E p \in Procs : /\ pc[p] = "w_unlock"
                   /\ ret[p] = MSG_LEN
                   /\ Len(call[p].msg) = MSG_LEN
                   /\ SlotContent(log_buffer, prev_head) = Tail(call[p].msg)

\* Caller p's read has returned.
ReadDone(p) == pc[p] = "ret" /\ call[p].op = "read"

\* The concatenation of the first j retained entries.
RetainedPrefix(j) == Concat(log_buffer, SubSeq(Retained(entries, tail, prev_head), 1, j))

\* C2: with no concurrent writer, a read at cursor 0 whose max_len is at
\* least the length of the retained content returns the concatenation of all
\* retained entries, whatever the lengths of the messages written before.
C2_FreshReadReturnsAll ==
  \A p \in Procs :
    (/\ ReadDone(p)
     /\ ret[p] >= 0
     /\ obs[p].built
     /\ obs[p].pos0 = 0
     /\ call[p].count >= Len(obs[p].snap)) => out[p] = obs[p].snap

\* C3: the bytes a read returns, with max_len large enough for the whole
\* ring, are the snapshot of one ring state that existed during the call
\* (stated for reads that return data, and while no write has faulted).
C3_ConsistentSnapshot ==
  \A p \in Procs :
    (/\ ReadDone(p)
     /\ ret[p] > 0
     /\ ~faulted
     /\ call[p].count >= MAX_ENTRIES * (MSG_LEN - 1)) => out[p] \in obs[p].seen

\* C6: on a ring not written during the drain, reads of one fixed max_len >= 1
\* from a fresh file reach end-of-stream when the bytes delivered, which is
\* where the file position stands, total the length of the snapshot (stated
\* for a ring whose newest entry is not empty).
C6_DrainOnce ==
  \A p \in Procs :
    (/\ ReadDone(p)
     /\ ret[p] = 0
     /\ obs[p].built
     /\ sess[p].quiet
     /\ sess[p].count >= 1
     /\ entries > 0
     /\ SlotContent(log_buffer, prev_head) # <<>>) => file_pos[p] = Len(SnapshotNow)

\* C7: the bytes one read returns end at the end of a retained message's
\* content, never inside a message (stated for a cursor of 0).
C7_NoTornMessage ==
  \A p \in Procs :
    (ReadDone(p) /\ ret[p] > 0 /\ obs[p].pos0 = 0) =>
      \E j \in 0..entries : out[p] = RetainedPrefix(j)

\* C8: a read at cursor c inside the snapshot S returns
\* S[c .. c + min(max_len, len(S) - c)) and advances the cursor by as much
\* (stated for c > 0).
C8_ReadFromCursor ==
  \A p \in Procs :
    (/\ ReadDone(p)
     /\ ret[p] >= 0
     /\ obs[p].built
     /\ obs[p].pos0 > 0
     /\ Len(obs[p].snap) > obs[p].pos0) =>
      LET c == obs[p].pos0
          n == Min(call[p].count, Len(obs[p].snap) - c)
      IN /\ out[p] = SubSeq(obs[p].snap, c + 1, c + n)
         /\ file_pos[p] = c + n

\* C10: a read whose cursor is at or past the end of the snapshot built for
\* the call returns zero bytes and leaves the cursor where it was.
C10_EndOfStream ==
  \A p \in Procs :
    (ReadDone(p) /\ obs[p].built /\ obs[p].pos0 >= Len(obs[p].snap)) =>
      /\ ret[p] = 0
      /\ out[p] = <<>>
      /\ file_pos[p] = obs[p].pos0

\* C10's case: a read at a cursor exactly at the end of a non-empty snapshot.
C10_Witness ==
  \E p \in Procs : /\ ReadDone(p)
                   /\ obs[p].built
                   /\ obs[p].pos0 = Len(obs[p].snap)
                   /\ obs[p].pos0 > 0
                   /\ ret[p] = 0

\* C11: a file that keeps being read with max_len >= 1 gets a read of zero
\* bytes after finitely many reads that returned data: there are never more
\* than MSG_LEN - 1 of them on one file, and while no write has changed the
\* ring since the polling began there are at most as many as there are
\* buffered bytes, so that the zero-byte read comes within that many calls
\* plus one, whatever the capacity.
C11_PollingEnds ==
  \A p \in Procs :
    /\ sess[p].polls <= MSG_LEN - 1
    /\ sess[p].still => sess[p].polls <= Len(SnapshotNow)

\* A read of zero bytes that ends a polling of two reads that returned data.
C11_Witness ==
  \E p \in Procs :
    /\ ReadDone(p) /\ ret[p] = 0
    /\ sess[p].still /\ sess[p].polls = MSG_LEN - 1

\* p has just taken a step of a dev_read call.
ReadMoved(p) == call'[p].op = "read" /\ pc'[p] # pc[p]

\* A read that failed with the invalid-argument or the fault error.
ReadFailed(p) ==
  ReadDone(p) /\ ret[p] \in {-EINVAL, -EFAULT}

\* C12: a read that fails because max_len is 0 or the destination is null
\* (invalid argument) or because the copy to the caller fails (fault)
\* returns the error with the file's cursor where it was when the call began,
\* and no step of the call changes the ring, so that the same read repeated
\* starts from the same cursor and ring.
C12_FailedReadChangesNothing ==
  [][\A p \in Procs :
       ReadMoved(p) =>
         /\ UNCHANGED ring
         /\ ReadFailed(p)' => file_pos'[p] = obs'[p].pos0
                              /\ file_pos'[p] = file_pos[p]]_vars

\* A read at a cursor past 0 of a ring with entries fails at the copy out.
C12_Witness ==
  \E p \in Procs :
    /\ ReadDone(p) /\ ret[p] = -EFAULT
    /\ obs[p].pos0 > 0 /\ entries > 0 /\ loc[p].bytes_read > 0

\* The callers between write_lock and write_unlock, and those between
\* read_lock and read_unlock.
WritersInside == {p \in Procs : pc[p] \in {"w_crit", "w_unlock"}}
ReadersInside == {p \in Procs : pc[p] = "r_scan"}

\* C13: in every interleaving of read and write calls at most one writer is
\* between acquiring and releasing the lock, and while one is there no reader
\* is between acquiring and releasing it; readers may be inside together.
C13_LockExclusion ==
  /\ Cardinality(WritersInside) <= 1
  /\ WritersInside # {} => ReadersInside = {}

\* Two readers inside together, after a write has been through the lock.
C13_Witness ==
  /\ Cardinality(ReadersInside) = 2
  /\ log # <<>>

\* The retained entries as records: each content followed by its terminator.
RECURSIVE Records(_, _)
Records(buf, slots) ==
  IF slots = <<>> THEN <<>>
  ELSE SlotContent(buf, Head(slots)) \o <<0>> \o Records(buf, Tail(slots))

RecordsNow == Records(log_buffer, Retained(entries, tail, prev_head))

\* C14: the bytes a read returns hold every retained entry's content followed
\* by its terminator byte (stated for a caller alone, a read at cursor 0 that
\* returns data, max_len with room for every record, and no faulted write).
C14_TerminatedRecords ==
  \A p \in Procs :
    (/\ ReadDone(p)
     /\ ret[p] > 0
     /\ obs[p].pos0 = 0
     /\ ~faulted
     /\ call[p].count >= Len(RecordsNow)) => out[p] = RecordsNow

\* A write call that has returned without the fault error.
WriteDone(p) == pc[p] = "ret" /\ call[p].op = "write" /\ ret[p] # -EFAULT

\* C15: a write whose copy from the caller succeeds stores exactly one new
\* entry, the newest of the ring, and returns the length of the message,
\* whatever the cursor of its file was when it was called (one caller).
C15_WriteAtAnyCursor ==
  \A p \in Procs :
    WriteDone(p) =>
      /\ ret[p] = call[p].count
      /\ Len(acq) = obs[p].acq0 + 1
      /\ SlotContent(log_buffer, prev_head) =
           SubSeq(call[p].msg, UsrIdx(call[p].count) + 1, call[p].count)

\* p has just left dev_open, or dev_release, with a result.
OpenReturns(p) == call'[p].op = "open" /\ pc[p] # "ret" /\ pc'[p] = "ret"
CloseReturns(p) == call'[p].op = "close" /\ pc[p] # "ret" /\ pc'[p] = "ret"

\* C16: with opens running concurrently the open counter never passes
\* INT_MAX: an open that returns has either failed with EMFILE on a counter
\* at INT_MAX that it left alone, or raised the counter by exactly one to a
\* value that is at most INT_MAX.
C16_OpenCounterBounded ==
  [][\A p \in Procs :
       OpenReturns(p) =>
         \/ /\ ret'[p] = -EMFILE
            /\ open_count = INT_MAX
            /\ open_count' = open_count
         \/ /\ ret'[p] = 0
            /\ open_count' = open_count + 1
            /\ open_count' <= INT_MAX]_vars

\* C17: with opens and closes interleaved, and closes that no open matches,
\* the open counter is never made negative: a close that returns has either
\* failed on a counter at zero that it left alone, or lowered the counter by
\* exactly one to a value that is at least zero.
C17_OpenCounterNotNegative ==
  [][\A p \in Procs :
       CloseReturns(p) =>
         \/ /\ ret'[p] = -EINVAL
            /\ open_count = 0
            /\ open_count' = open_count
         \/ /\ ret'[p] = 0
            /\ open_count' = open_count - 1
            /\ open_count' >= 0]_vars

\* C18: whenever no write holds the lock, also after writes that failed with
\* a fault, the bookkeeping agrees with itself: with entries > 0 the slots
\* from tail forward through prev_head are entries many; with the ring not
\* full tail = 0 and head = entries; with the ring full head = tail.
C18_Bookkeeping ==
  WritersInside = {} =>
    /\ entries > 0 => Len(Walk(tail, prev_head)) = entries
    /\ entries < MAX_ENTRIES => tail = 0 /\ head = entries
    /\ entries = MAX_ENTRIES => head = tail

\* head, tail, prev_head are slot indices and entries a count of slots.
InRange ==
  /\ head \in 0..(MAX_ENTRIES - 1)
  /\ tail \in 0..(MAX_ENTRIES - 1)
  /\ prev_head \in 0..(MAX_ENTRIES - 1)
  /\ entries \in 0..MAX_ENTRIES

\* C19: head, tail and prev_head always lie in 0 .. MAX_ENTRIES - 1 and
\* entries in 0 .. MAX_ENTRIES; no step lowers entries; and once a write has
\* stored a message, whenever no write holds the lock head is the slot after
\* prev_head, modulo MAX_ENTRIES.
C19_IndexRanges ==
  /\ [](InRange /\ ((log # <<>> /\ WritersInside = {}) =>
                       head = (prev_head + 1) % MAX_ENTRIES))
  /\ [][entries' >= entries]_vars

\* The ring has wrapped: a write stored into a full ring and has left.
C19_Witness ==
  /\ Len(log) > MAX_ENTRIES
  /\ WritersInside = {}
  /\ entries = MAX_ENTRIES
  /\ tail # 0

\* p has just taken a step of a call of the given kinds.
Moved(p, ops) == call'[p].op \in ops /\ pc'[p] # pc[p]

\* C20: only the write path changes the ring: no step of a read (returning
\* data, end-of-stream or an error), of an open or of a close changes head,
\* tail, prev_head, entries or a slot byte; and no step of a write changes
\* the open counter or the cursor of any file.
C20_Frame ==
  [][\A p \in Procs :
       /\ Moved(p, {"read", "open", "close"}) => UNCHANGED ring
       /\ Moved(p, {"write"}) => UNCHANGED <<open_count, file_pos>>]_vars

\* After more stored writes than the ring has slots, with the open counter
\* above zero, a read at a cursor past 0 has failed.
C20_Witness ==
  \E p \in Procs :
    /\ ReadDone(p) /\ ret[p] < 0
    /\ file_pos[p] > 0
    /\ open_count > 0
    /\ Len(log) > MAX_ENTRIES

\* p's write of a zero-length message has just returned, or has just gone
\* through the critical section.
EmptyWriteReturns(p) ==
  /\ call'[p].op = "write" /\ call'[p].count = 0
  /\ pc[p] # "ret" /\ pc'[p] = "ret"
EmptyWriteStores(p) ==
  /\ call[p].op = "write" /\ call[p].count = 0
  /\ pc[p] = "w_crit" /\ pc'[p] = "w_unlock"

\* C21: a write of a zero-length message returns 0 after it went through the
\* critical section, where it stored an empty entry as the newest of the
\* ring: entries grows by one below MAX_ENTRIES, and in a full ring (no write
\* having faulted) the oldest entry is evicted.
C21_EmptyWrite ==
  [][\A p \in Procs :
       /\ EmptyWriteReturns(p) => pc[p] = "w_unlock" /\ ret'[p] = 0
       /\ EmptyWriteStores(p) =>
            /\ ret'[p] = 0
            /\ prev_head' = head
            /\ SlotContent(log_buffer', prev_head') = <<>>
            /\ entries' = Min(entries + 1, MAX_ENTRIES)
            /\ (entries = MAX_ENTRIES /\ ~faulted) => tail' = NextIdx(tail)]_vars

\* C22: the bytes a read assembles never outgrow its temporary buffer of
\* min(max_len, LOG_BUF_LEN) bytes, and a read that returns a count returns
\* at most max_len bytes, for every ring state and every max_len >= 1.
C22_ReadWithinBuffer ==
  \A p \in Procs :
    /\ loc[p].bytes_read = Len(loc[p].buffer)
    /\ loc[p].bytes_read <= loc[p].size
    /\ (ReadDone(p) /\ ret[p] >= 0) =>
         /\ ret[p] <= call[p].count
         /\ ret[p] = Len(out[p])

\* A read with max_len above LOG_BUF_LEN has returned a full ring of
\* longest messages from a buffer of LOG_BUF_LEN bytes.
C22_Witness ==
  \E p \in Procs :
    /\ ReadDone(p)
    /\ call[p].count > LOG_BUF_LEN
    /\ loc[p].size = LOG_BUF_LEN
    /\ ret[p] = MAX_ENTRIES * (MSG_LEN - 1)

\* A caller waiting at write_lock or read_lock that cannot take it.
Blocked(p) ==
  \/ pc[p] = "w_lock" /\ ~WriteLockFree(rwlock)
  \/ pc[p] = "r_lock" /\ ~ReadLockFree(rwlock)

\* C23: every exit path of read and write gives back the lock it took: the
\* lock is held by exactly the callers inside their critical sections, so it
\* is free whenever no read or write call is in progress, and never is every
\* caller blocked on it.
C23_LockReleased ==
  /\ rwlock.writer <=> WritersInside # {}
  /\ rwlock.readers = Cardinality(ReadersInside)
  /\ (\A p \in Procs : pc[p] \in {"idle", "ret"}) =>
       rwlock.readers = 0 /\ ~rwlock.writer
  /\ \E p \in Procs : ~Blocked(p)

\* Both callers are back from the lock by an error return: one from a
\* faulted write, the other from a read whose copy out failed.
C23_Witness ==
  /\ \E p \in Procs : pc[p] = "ret" /\ call[p].op = "write" /\ ret[p] = -EFAULT
  /\ \E p \in Procs : ReadDone(p) /\ ret[p] = -EFAULT

\* C24: a read that allocated its temporary buffer has released it when it
\* returns, whether it returns data, end-of-stream or the fault error (stated
\* for reads whose scan went through at least one entry), and no buffer of
\* an earlier read of that kind is still allocated.
C24_BufferFreed ==
  \A p \in Procs :
    (ReadDone(p) /\ loc[p].entries_read > 0) => ~loc[p].held /\ kleak = 0

====
